---- MODULE Spec2Model ----
(***************************************************************************)
(* Model of the circulatory-system-3d scene: the App settings, the curves  *)
(* built by CirculatorySystem / CapillaryBed, and one BloodFlow particle   *)
(* system (the Flow Unit) ticked by useFrame, and the heart chambers and   *)
(* lungs that the same frames animate.                                     *)
(*                                                                         *)
(* Numbers are fixed point.                                                *)
(*   flowSpeed        tenths              (1.0  = 10)                      *)
(*   speed factor     tenths              (0.6  = 6, 1 = 10)               *)
(*   frame delta      sixtieths of a s    (1/60 = 1)                       *)
(*   speedMod         fiftieths           (1.0  = 50)                      *)
(*   t, moveSpeed     1 / TDen                                             *)
(*   Math.random()    twentieths          (0 .. 19, i.e. [0,1))            *)
(*   scale            hundredths          (0.7  = 70)                      *)
(*   colour channel   0 .. 255 per hex byte, times TDen once written       *)
(*   elapsed time     tenths of a second                                   *)
(*   phase            1/600 of a turn                                      *)
(*   sine, pulse      ten-thousandths                                      *)
(*   mesh scale       millionths once a frame has set it                   *)
(***************************************************************************)
EXTENDS Integers, Sequences, FiniteSets, TLC

VARIABLES
    settings,    \* App: useState<SimulationSettings>
    curves,      \* CirculatorySystem and CapillaryBed: the useMemo curves
    unit,        \* BloodFlow props of the Flow Unit under observation
    particles,   \* BloodFlow: useMemo particle pool
    mesh,        \* the InstancedMesh behind meshRef (buffers and versions)
    log,         \* buffer operations of the latest useFrame call, in order
    hist,        \* observer: number of useFrame calls, first inputs, initial t
    site,        \* where the Flow Unit is rendered, and what became of it
    clock,       \* state.clock: the elapsed time the frames read
    chambers,    \* HeartChamber meshes: scale, and what the callback read
    lungs        \* LungShape meshes: scale, and what the callback read

vars == <<settings, curves, unit, particles, mesh, log, hist, site, clock, chambers, lungs>>

-----------------------------------------------------------------------------
(* Bounds of the model *)

MaxTicks == 2          \* useFrame calls explored per behaviour
PoolCap == 2           \* particles tracked per pool (the code's count is 3..40)
MaxClock == 5          \* elapsed time explored, in tenths of a second
MaxLaps == 2           \* curve lengths a particle's t is followed over

-----------------------------------------------------------------------------
(* Units *)

\* 1 / (0.1 * 0.1 * (1/60) * 0.15 * (1/50)): speed * delta * 0.15 * speedMod
TDen == (10 * 10 * 60 * 50 * 100) \div 15

Min(a, b) == IF a < b THEN a ELSE b
Max(a, b) == IF a > b THEN a ELSE b

\* an absent optional value (overrideColor, instanceColor)
Undefined == <<>>

\* an absent path prop
NoPath == "undefined"

-----------------------------------------------------------------------------
(* Colours *)

COLOR_O2_RICH == <<239, 68, 68>>     \* '#ef4444'
COLOR_O2_POOR == <<59, 130, 246>>    \* '#3b82f6'
ColorWhite == <<255, 255, 255>>      \* new Color()

\* Color.copy: the colour as stored, channels scaled by TDen
ColorCopy(c) == <<c[1] * TDen, c[2] * TDen, c[3] * TDen>>

\* Color.lerpColors(c1, c2, alpha), alpha in 1/TDen
LerpColors(c1, c2, alpha) ==
    <<c1[1] * TDen + (c2[1] - c1[1]) * alpha,
      c1[2] * TDen + (c2[2] - c1[2]) * alpha,
      c1[3] * TDen + (c2[3] - c1[3]) * alpha>>

-----------------------------------------------------------------------------
(* Math.random *)

\* Math.random() is a generator with hidden state: the model draws one of a
\* few sequences of values in 0 .. 19 (twentieths, so every value is in
\* [0,1)) and reads it cyclically.
RandomSeqs ==
    { <<0, 10, 10, 10, 10,   10, 0, 19, 5, 10>>,
      <<19, 0, 19, 10, 19,   6, 3, 3, 3, 0>>,
      <<7, 12, 4, 9, 10,     10, 15, 2, 11, 10>>,
      <<8, 1, 18, 10, 10,    12, 10, 10, 0, 10>> }

Random(seq, n) == seq[((n - 1) % Len(seq)) + 1]

-----------------------------------------------------------------------------
(* Layout constants; coordinates are thousandths *)

SCALE_FACTOR == 15     \* 1.5, in tenths

\* x * SCALE_FACTOR
SF(x) == (x * SCALE_FACTOR) \div 10

POS_RA == <<-600, 1800, 0>>
POS_LA == <<600, 1800, -200>>
POS_RV == <<-400, 600, 300>>
POS_LV == <<500, 500, 0>>

LUNG_L_POS == <<SF(-5500), SF(3500), 0>>
LUNG_R_POS == <<SF(5500), SF(3500), 0>>
BODY_UPPER_POS == <<0, SF(6000), 0>>
BODY_LOWER_POS == <<0, SF(-5000), 0>>

BED_WIDTH_HALF == SF(1200)
BED_HEIGHT_HALF == SF(1500)

MICROVESSEL_GAP == 2500

-----------------------------------------------------------------------------
(* Curves *)

CatmullRomCurve3(points) == [kind |-> "CatmullRomCurve3", points |-> points]

CubicBezierCurve3(v0, v1, v2, v3) ==
    [kind |-> "CubicBezierCurve3", points |-> <<v0, v1, v2, v3>>]

\* CirculatorySystem: useMemo(() => { ... return { paths, visualPaths } }, [])
BuildPaths ==
    LET pathRAtoRV == CatmullRomCurve3(<<POS_RA, POS_RV>>)
        pathLAtoLV == CatmullRomCurve3(<<POS_LA, POS_LV>>)
        pulmoTrunkStart == <<POS_RV[1], POS_RV[2] + 800, POS_RV[3]>>
        pulmonaryArteryLeft == CatmullRomCurve3(<<
            POS_RV,
            pulmoTrunkStart,
            <<SF(-1500), SF(2500), 400>>,
            <<SF(-3500), SF(3200), 300>>,
            LUNG_L_POS >>)
        pulmonaryArteryRight == CatmullRomCurve3(<<
            POS_RV,
            pulmoTrunkStart,
            <<SF(1500), SF(2500), 400>>,
            <<SF(3500), SF(3200), 300>>,
            LUNG_R_POS >>)
        lungLSupPos == <<LUNG_L_POS[1] + 500, LUNG_L_POS[2] + SF(800), LUNG_L_POS[3] - 300>>
        lungLInfPos == <<LUNG_L_POS[1] + 500, LUNG_L_POS[2] - SF(800), LUNG_L_POS[3] - 300>>
        lungRSupPos == <<LUNG_R_POS[1] - 500, LUNG_R_POS[2] + SF(800), LUNG_R_POS[3] - 300>>
        lungRInfPos == <<LUNG_R_POS[1] - 500, LUNG_R_POS[2] - SF(800), LUNG_R_POS[3] - 300>>
        laPostEntry == <<POS_LA[1], POS_LA[2], POS_LA[3] - 500>>
        pulmonaryVeinLeftSup == CatmullRomCurve3(<<
            lungLSupPos,
            <<SF(-2500), SF(3500), -500>>,
            <<SF(-1000), SF(2800), -600>>,
            laPostEntry >>)
        pulmonaryVeinLeftInf == CatmullRomCurve3(<<
            lungLInfPos,
            <<SF(-2500), SF(2200), -500>>,
            <<SF(-1000), SF(2000), -600>>,
            laPostEntry >>)
        pulmonaryVeinRightSup == CatmullRomCurve3(<<
            lungRSupPos,
            <<SF(2500), SF(3500), -500>>,
            <<SF(1500), SF(2800), -600>>,
            laPostEntry >>)
        pulmonaryVeinRightInf == CatmullRomCurve3(<<
            lungRInfPos,
            <<SF(2500), SF(2200), -500>>,
            <<SF(1500), SF(2000), -600>>,
            laPostEntry >>)
        pulmonaryTrunkVisual == CatmullRomCurve3(<<
            POS_RV,
            pulmoTrunkStart,
            <<pulmoTrunkStart[1] - 500, pulmoTrunkStart[2] + 200, pulmoTrunkStart[3]>> >>)

        aortaRoot == <<POS_LV[1], POS_LV[2] + 1200, POS_LV[3]>>
        aorticArch == <<0, SF(2800), 200>>
        upperBedInlet ==
            <<BODY_UPPER_POS[1] - BED_WIDTH_HALF, BODY_UPPER_POS[2] - BED_HEIGHT_HALF, 0>>
        upperBedOutlet ==
            <<BODY_UPPER_POS[1] + BED_WIDTH_HALF, BODY_UPPER_POS[2] - BED_HEIGHT_HALF, 0>>
        upperArteryEnd == <<upperBedInlet[1], upperBedInlet[2] - MICROVESSEL_GAP, 0>>
        upperVeinStart == <<upperBedOutlet[1], upperBedOutlet[2] - MICROVESSEL_GAP, -100>>
        systemicUpperArtery == CatmullRomCurve3(<<
            POS_LV,
            aortaRoot,
            aorticArch,
            <<upperArteryEnd[1], upperArteryEnd[2] - 1000, 0>>,
            upperArteryEnd >>)
        systemicUpperVein == CatmullRomCurve3(<<
            upperVeinStart,
            <<upperVeinStart[1], upperVeinStart[2] - 500, -150>>,
            <<SF(1200), SF(3000), -200>>,
            <<0, SF(2500), -200>>,
            POS_RA >>)
        systemicUpperArteryVisual == CatmullRomCurve3(<<
            POS_LV,
            aortaRoot,
            aorticArch,
            <<SF(-800), SF(2800), 0>>,
            upperArteryEnd >>)
        systemicUpperVeinVisual == CatmullRomCurve3(<<
            upperVeinStart,
            <<SF(1000), SF(3500), -200>>,
            <<POS_RA[1] + 200, POS_RA[2] + SF(1000), POS_RA[3]>>,
            POS_RA >>)

        lowerBedInlet ==
            <<BODY_LOWER_POS[1] - BED_WIDTH_HALF, BODY_LOWER_POS[2] + BED_HEIGHT_HALF, 0>>
        lowerBedOutlet ==
            <<BODY_LOWER_POS[1] + BED_WIDTH_HALF, BODY_LOWER_POS[2] + BED_HEIGHT_HALF, 0>>
        lowerArteryEnd == <<lowerBedInlet[1], lowerBedInlet[2] + MICROVESSEL_GAP, 0>>
        lowerVeinStart == <<lowerBedOutlet[1], lowerBedOutlet[2] + MICROVESSEL_GAP, -100>>
        systemicLowerArtery == CatmullRomCurve3(<<
            POS_LV,
            aortaRoot,
            <<-200, 0, -500>>,
            <<lowerArteryEnd[1], lowerArteryEnd[2] + 1000, 0>>,
            lowerArteryEnd >>)
        systemicLowerVein == CatmullRomCurve3(<<
            lowerVeinStart,
            <<lowerVeinStart[1], lowerVeinStart[2] + 500, -150>>,
            <<800, SF(-2500), -300>>,
            <<600, SF(-1000), -400>>,
            <<400, 200, -500>>,
            <<POS_RA[1] + 300, POS_RA[2] - 500, POS_RA[3] - 300>>,
            POS_RA >>)
        systemicLowerArteryVisual == CatmullRomCurve3(<<
            aorticArch,
            <<-200, 0, -500>>,
            lowerArteryEnd >>)
        systemicLowerVeinVisual == CatmullRomCurve3(<<
            lowerVeinStart,
            <<800, SF(-2500), -300>>,
            <<600, SF(-1000), -400>>,
            <<400, 200, -500>>,
            <<POS_RA[1] + 300, POS_RA[2] - 500, POS_RA[3] - 300>>,
            POS_RA >>)

        brachiocephalicArtery == CatmullRomCurve3(<<
            aorticArch,
            <<SF(400), SF(3200), 150>>,
            <<SF(800), SF(3800), 100>>,
            <<SF(600), SF(4500), 0>> >>)
        leftCarotidArtery == CatmullRomCurve3(<<
            aorticArch,
            <<SF(-200), SF(3300), 150>>,
            <<SF(-300), SF(4000), 100>>,
            <<SF(-200), SF(4500), 0>> >>)
        leftSubclavianArtery == CatmullRomCurve3(<<
            aorticArch,
            <<SF(-600), SF(3200), 100>>,
            <<SF(-1000), SF(3800), 50>>,
            <<SF(-1200), SF(4500), 0>> >>)
        leftIliacArtery == CatmullRomCurve3(<<
            <<-200, SF(-1500), -400>>,
            <<SF(-500), SF(-2200), -200>>,
            <<SF(-800), SF(-2800), -100>>,
            <<SF(-1200), SF(-3500), 0>> >>)
        rightIliacArtery == CatmullRomCurve3(<<
            <<-200, SF(-1500), -400>>,
            <<SF(200), SF(-2200), -200>>,
            <<SF(500), SF(-2800), -100>>,
            <<SF(600), SF(-3500), 0>> >>)
        rightBrachiocephalicVein == CatmullRomCurve3(<<
            <<SF(800), SF(4500), -100>>,
            <<SF(900), SF(4000), -150>>,
            <<SF(800), SF(3500), -200>>,
            <<SF(500), SF(3000), -200>> >>)
        leftBrachiocephalicVein == CatmullRomCurve3(<<
            <<SF(-600), SF(4500), -100>>,
            <<SF(-200), SF(4000), -150>>,
            <<SF(200), SF(3500), -200>>,
            <<SF(500), SF(3000), -200>> >>)
        leftIliacVein == CatmullRomCurve3(<<
            <<SF(-400), SF(-3500), -100>>,
            <<SF(-200), SF(-3000), -200>>,
            <<SF(200), SF(-2600), -250>>,
            <<600, SF(-2300), -300>> >>)
        rightIliacVein == CatmullRomCurve3(<<
            <<SF(1000), SF(-3500), -100>>,
            <<SF(900), SF(-3000), -200>>,
            <<SF(800), SF(-2600), -250>>,
            <<700, SF(-2300), -300>> >>)

        upperArterioles == <<
            CatmullRomCurve3(<<
                upperArteryEnd,
                <<upperArteryEnd[1] - 400, upperArteryEnd[2] + 800, 150>>,
                <<upperBedInlet[1] - 200, upperBedInlet[2] - 500, 100>>,
                <<upperBedInlet[1], upperBedInlet[2] + BED_HEIGHT_HALF \div 2, 0>> >>),
            CatmullRomCurve3(<<
                upperArteryEnd,
                <<upperArteryEnd[1], upperArteryEnd[2] + 800, 0>>,
                <<upperBedInlet[1], upperBedInlet[2] - 400, 0>>,
                <<upperBedInlet[1], upperBedInlet[2], 0>> >>),
            CatmullRomCurve3(<<
                upperArteryEnd,
                <<upperArteryEnd[1] + 400, upperArteryEnd[2] + 800, -150>>,
                <<upperBedInlet[1] + 200, upperBedInlet[2] - 500, -100>>,
                <<upperBedInlet[1], upperBedInlet[2] - BED_HEIGHT_HALF \div 2, 0>> >>) >>
        lowerArterioles == <<
            CatmullRomCurve3(<<
                lowerArteryEnd,
                <<lowerArteryEnd[1] - 400, lowerArteryEnd[2] - 800, 150>>,
                <<lowerBedInlet[1] - 200, lowerBedInlet[2] + 500, 100>>,
                <<lowerBedInlet[1], lowerBedInlet[2] + BED_HEIGHT_HALF \div 2, 0>> >>),
            CatmullRomCurve3(<<
                lowerArteryEnd,
                <<lowerArteryEnd[1], lowerArteryEnd[2] - 800, 0>>,
                <<lowerBedInlet[1], lowerBedInlet[2] + 400, 0>>,
                <<lowerBedInlet[1], lowerBedInlet[2], 0>> >>),
            CatmullRomCurve3(<<
                lowerArteryEnd,
                <<lowerArteryEnd[1] + 400, lowerArteryEnd[2] - 800, -150>>,
                <<lowerBedInlet[1] + 200, lowerBedInlet[2] + 500, -100>>,
                <<lowerBedInlet[1], lowerBedInlet[2] - BED_HEIGHT_HALF \div 2, 0>> >>) >>
        upperVenules == <<
            CatmullRomCurve3(<<
                <<upperBedOutlet[1], upperBedOutlet[2] + BED_HEIGHT_HALF \div 2, 0>>,
                <<upperBedOutlet[1] + 200, upperBedOutlet[2] - 500, -100>>,
                <<upperVeinStart[1] + 400, upperVeinStart[2] + 800, -150>>,
                upperVeinStart >>),
            CatmullRomCurve3(<<
                <<upperBedOutlet[1], upperBedOutlet[2], 0>>,
                <<upperBedOutlet[1], upperBedOutlet[2] - 400, -50>>,
                <<upperVeinStart[1], upperVeinStart[2] + 800, -100>>,
                upperVeinStart >>),
            CatmullRomCurve3(<<
                <<upperBedOutlet[1], upperBedOutlet[2] - BED_HEIGHT_HALF \div 2, 0>>,
                <<upperBedOutlet[1] - 200, upperBedOutlet[2] - 500, -100>>,
                <<upperVeinStart[1] - 400, upperVeinStart[2] + 800, -150>>,
                upperVeinStart >>) >>
        lowerVenules == <<
            CatmullRomCurve3(<<
                <<lowerBedOutlet[1], lowerBedOutlet[2] + BED_HEIGHT_HALF \div 2, 0>>,
                <<lowerBedOutlet[1] + 200, lowerBedOutlet[2] + 500, -100>>,
                <<lowerVeinStart[1] + 400, lowerVeinStart[2] - 800, -150>>,
                lowerVeinStart >>),
            CatmullRomCurve3(<<
                <<lowerBedOutlet[1], lowerBedOutlet[2], 0>>,
                <<lowerBedOutlet[1], lowerBedOutlet[2] + 400, -50>>,
                <<lowerVeinStart[1], lowerVeinStart[2] - 800, -100>>,
                lowerVeinStart >>),
            CatmullRomCurve3(<<
                <<lowerBedOutlet[1], lowerBedOutlet[2] - BED_HEIGHT_HALF \div 2, 0>>,
                <<lowerBedOutlet[1] - 200, lowerBedOutlet[2] + 500, -100>>,
                <<lowerVeinStart[1] - 400, lowerVeinStart[2] - 800, -150>>,
                lowerVeinStart >>) >>
    IN  [ paths |->
            [ pulmonaryArteryLeft |-> pulmonaryArteryLeft,
              pulmonaryArteryRight |-> pulmonaryArteryRight,
              pulmonaryVeinLeftSup |-> pulmonaryVeinLeftSup,
              pulmonaryVeinLeftInf |-> pulmonaryVeinLeftInf,
              pulmonaryVeinRightSup |-> pulmonaryVeinRightSup,
              pulmonaryVeinRightInf |-> pulmonaryVeinRightInf,
              systemicUpperArtery |-> systemicUpperArtery,
              systemicUpperVein |-> systemicUpperVein,
              systemicLowerArtery |-> systemicLowerArtery,
              systemicLowerVein |-> systemicLowerVein,
              pathRAtoRV |-> pathRAtoRV,
              pathLAtoLV |-> pathLAtoLV,
              brachiocephalicArtery |-> brachiocephalicArtery,
              leftCarotidArtery |-> leftCarotidArtery,
              leftSubclavianArtery |-> leftSubclavianArtery,
              leftIliacArtery |-> leftIliacArtery,
              rightIliacArtery |-> rightIliacArtery,
              rightBrachiocephalicVein |-> rightBrachiocephalicVein,
              leftBrachiocephalicVein |-> leftBrachiocephalicVein,
              leftIliacVein |-> leftIliacVein,
              rightIliacVein |-> rightIliacVein,
              upperArterioles |-> upperArterioles,
              lowerArterioles |-> lowerArterioles,
              upperVenules |-> upperVenules,
              lowerVenules |-> lowerVenules ],
          visualPaths |->
            [ systemicUpperArteryVisual |-> systemicUpperArteryVisual,
              systemicUpperVeinVisual |-> systemicUpperVeinVisual,
              systemicLowerArteryVisual |-> systemicLowerArteryVisual,
              systemicLowerVeinVisual |-> systemicLowerVeinVisual,
              pulmonaryTrunkVisual |-> pulmonaryTrunkVisual ] ]

\* the fields of paths that hold one curve, and those that hold a fan of curves
VesselNames ==
    { "pulmonaryArteryLeft", "pulmonaryArteryRight", "pulmonaryVeinLeftSup",
      "pulmonaryVeinLeftInf", "pulmonaryVeinRightSup", "pulmonaryVeinRightInf",
      "systemicUpperArtery", "systemicUpperVein", "systemicLowerArtery",
      "systemicLowerVein", "pathRAtoRV", "pathLAtoLV", "brachiocephalicArtery",
      "leftCarotidArtery", "leftSubclavianArtery", "leftIliacArtery",
      "rightIliacArtery", "rightBrachiocephalicVein", "leftBrachiocephalicVein",
      "leftIliacVein", "rightIliacVein" }

FanNames == {"upperArterioles", "lowerArterioles", "upperVenules", "lowerVenules"}

VisualNames ==
    { "systemicUpperArteryVisual", "systemicUpperVeinVisual",
      "systemicLowerArteryVisual", "systemicLowerVeinVisual", "pulmonaryTrunkVisual" }

-----------------------------------------------------------------------------
(* CapillaryBed: rails and bridges *)

BridgeCount == 20

\* thousandths to the finer unit of bridge points, 1/19000, in which the
\* rail samples at t = 0.05 + (i / 19) * 0.9 are whole numbers
Fine(p) == <<19 * p[1], 19 * p[2], 19 * p[3]>>

\* curve.getPointAt(num / den) for a rail: its control points are collinear
\* and evenly spaced, so the point at arc-length fraction u is first +
\* u * (last - first); the result is in 1/19000
RailPointAt(curve, num, den) ==
    LET a == curve.points[1]
        b == curve.points[Len(curve.points)]
    IN  << 19 * a[1] + (19 * (b[1] - a[1]) * num) \div den,
           19 * a[2] + (19 * (b[2] - a[2]) * num) \div den,
           19 * a[3] + (19 * (b[3] - a[3]) * num) \div den >>

\* new Vector3().lerpVectors(v1, v2, alpha), alpha in hundredths
LerpVectors(v1, v2, alpha) ==
    << v1[1] + ((v2[1] - v1[1]) * alpha) \div 100,
       v1[2] + ((v2[2] - v1[2]) * alpha) \div 100,
       v1[3] + ((v2[3] - v1[3]) * alpha) \div 100 >>

\* a variant of Bridge whose jitter is Math.random(), not Math.random() - 0.5
BridgeOneSided(left, right, seq, first, i) ==
    LET num   == 95 + 90 * i
        den   == 100 * (BridgeCount - 1)
        start == RailPointAt(left, num, den)
        end   == RailPointAt(right, num, den)
        r(k)  == Random(seq, first + 4 * i + k)
        m1    == LerpVectors(start, end, 33)
        m2    == LerpVectors(start, end, 66)
        mid1  == <<m1[1], m1[2] + r(1) * 475, m1[3] + r(2) * 760>>
        mid2  == <<m2[1], m2[2] + r(3) * 475, m2[3] + r(4) * 760>>
    IN  CubicBezierCurve3(start, mid1, mid2, end)

\* bridge i (0-based) of the useMemo loop; first is the number of
\* Math.random() values drawn before the bed's loop starts
Bridge(left, right, seq, first, i) ==
    LET num   == 95 + 90 * i           \* t = 0.05 + (i / (count - 1)) * 0.9
        den   == 100 * (BridgeCount - 1)
        start == RailPointAt(left, num, den)
        end   == RailPointAt(right, num, den)
        r(k)  == Random(seq, first + 4 * i + k) - 10   \* Math.random() - 0.5
        m1    == LerpVectors(start, end, 33)
        m2    == LerpVectors(start, end, 66)
        mid1  == <<m1[1], m1[2] + r(1) * 475, m1[3] + r(2) * 760>>
        mid2  == <<m2[1], m2[2] + r(3) * 475, m2[3] + r(4) * 760>>
    IN  CubicBezierCurve3(start, mid1, mid2, end)

\* the curves a CapillaryBed builds in its three useMemo calls
CapillaryBed(position, seq, first) ==
    LET leftVesselPath == CatmullRomCurve3(<<
            <<-BED_WIDTH_HALF, -BED_HEIGHT_HALF, 0>>,
            <<-BED_WIDTH_HALF, 0, 0>>,
            <<-BED_WIDTH_HALF, BED_HEIGHT_HALF, 0>> >>)
        rightVesselPath == CatmullRomCurve3(<<
            <<BED_WIDTH_HALF, -BED_HEIGHT_HALF, 0>>,
            <<BED_WIDTH_HALF, 0, 0>>,
            <<BED_WIDTH_HALF, BED_HEIGHT_HALF, 0>> >>)
    IN  [ position        |-> position,
          leftVesselPath  |-> leftVesselPath,
          rightVesselPath |-> rightVesselPath,
          bridges         |-> [i \in 1 .. BridgeCount |->
                                 Bridge(leftVesselPath, rightVesselPath, seq, first, i - 1)] ]

\* every curve of the mounted scene
BuildScene(seq) ==
    [ paths       |-> BuildPaths.paths,
      visualPaths |-> BuildPaths.visualPaths,
      upperBed    |-> CapillaryBed(BODY_UPPER_POS, seq, 0),
      lowerBed    |-> CapillaryBed(BODY_LOWER_POS, seq, 4 * BridgeCount) ]

\* all CatmullRomCurve3 and all CubicBezierCurve3 of a built scene
SplinesOf(c) ==
    {c.paths[n] : n \in VesselNames}
    \cup UNION {{c.paths[n][k] : k \in 1 .. Len(c.paths[n])} : n \in FanNames}
    \cup {c.visualPaths[n] : n \in VisualNames}
    \cup {c.upperBed.leftVesselPath, c.upperBed.rightVesselPath,
          c.lowerBed.leftVesselPath, c.lowerBed.rightVesselPath}

BeziersOf(c) ==
    {c.upperBed.bridges[i] : i \in 1 .. Len(c.upperBed.bridges)}
    \cup {c.lowerBed.bridges[i] : i \in 1 .. Len(c.lowerBed.bridges)}

-----------------------------------------------------------------------------
(* BloodFlow: props and particle pool *)

ParticleTypes == {"systemic", "pulmonary", "internal", "capillary", "undefined"}

\* the props the scene's call sites pass, other than type and overrideColor:
\* CapillaryBed passes speed = flowSpeed * 0.6, count 3, radius 0.04 for a
\* bridge; the other call sites pass speed = flowSpeed.
BridgeProps ==
    [path |-> "bridge", count |-> 3, speedFactor |-> 6, radius |-> 4]
VesselProps ==
    [path |-> "vessel", count |-> 15, speedFactor |-> 10, radius |-> 8]

\* BloodFlow's props: every type with every overrideColor
BloodFlowProps ==
    { [path |-> b.path, count |-> b.count, speedFactor |-> b.speedFactor,
       radius |-> b.radius, type |-> ty, overrideColor |-> oc] :
        b \in {BridgeProps, VesselProps},
        ty \in ParticleTypes,
        oc \in {Undefined, COLOR_O2_RICH, COLOR_O2_POOR} }

\* the combinations explored: a bridge is the capillary unit without
\* override, every other combination runs on a vessel
UnitProps ==
    { u \in BloodFlowProps :
        (u.path = "bridge") <=> (u.type = "capillary" /\ u.overrideColor = Undefined) }

PoolSize(count) == Min(count, PoolCap)

\* one element of the useMemo pool: five Math.random() draws per particle
NewParticle(seq, i, radius) ==
    [ t        |-> Random(seq, 5 * (i - 1) + 1) * (TDen \div 20),
      offset   |-> << (Random(seq, 5 * (i - 1) + 2) - 10) * radius * 9,
                      (Random(seq, 5 * (i - 1) + 3) - 10) * radius * 9,
                      (Random(seq, 5 * (i - 1) + 4) - 10) * radius * 9 >>,
      speedMod |-> 40 + Random(seq, 5 * (i - 1) + 5) ]

NewPool(seq, count, radius) ==
    [i \in 1 .. PoolSize(count) |-> NewParticle(seq, i, radius)]

-----------------------------------------------------------------------------
(* BloodFlow.useFrame: the per-particle laws *)

\* speed prop as passed by the call sites, in hundredths
SpeedProp(flowSpeed, u) == flowSpeed * u.speedFactor

\* moveSpeed * particle.speedMod, in 1/TDen
StepOf(speed, delta, speedMod) == speed * delta * speedMod

\* particle.t += step; if (particle.t > 1) particle.t -= 1
Advance(t, step) ==
    LET t1 == t + step
    IN  IF t1 > TDen THEN t1 - TDen ELSE t1

\* a variant of MoveParticle that draws the particle's jitter offset and
\* speedMod again on every frame
MoveParticleRedrawn(p, step) ==
    [p EXCEPT !.t = Advance(@, step),
              !.offset = <<0 - @[1], 0 - @[2], 0 - @[3]>>,
              !.speedMod = 40 + ((@ - 40 + 7) % 20)]

\* the forEach body's effect on the particle object: only its t is assigned
MoveParticle(p, step) == [p EXCEPT !.t = Advance(@, step)]

\* a variant of ScaleAt that narrows every kind, capillary included
ScaleAtNarrowAll(type, t) ==
    LET s0 == 70
        s1 == IF type = "internal" THEN 50 ELSE s0
        s2 == IF type = "capillary" THEN 35 ELSE s1
    IN  IF 10 * t > 4 * TDen /\ 10 * t < 6 * TDen THEN 40 ELSE s2

\* scale in hundredths
ScaleAt(type, t) ==
    LET s0 == 70
        s1 == IF type = "internal" THEN 50 ELSE s0
        s2 == IF type = "capillary" THEN 35 ELSE s1
    IN  IF type # "capillary" /\ 10 * t > 4 * TDen /\ 10 * t < 6 * TDen
        THEN 40
        ELSE s2

\* a variant of AlphaAt whose ramp starts at 0.3 but rises too slowly
AlphaAtSlow(t) == Max(0, (t - (3 * TDen) \div 10) * 4)

\* Math.max(0, (particle.t - 0.3) * 5), in 1/TDen
AlphaAt(t) == Max(0, (t - (3 * TDen) \div 10) * 5)

\* type === 'pulmonary': Blue -> Red
PulmonaryColor(t) ==
    IF 2 * t < TDen
    THEN LerpColors(COLOR_O2_POOR, COLOR_O2_RICH, Min(TDen, AlphaAt(t)))
    ELSE ColorCopy(COLOR_O2_RICH)

\* a variant of SystemicColor that keeps the pulmonary branch's lerp order
SystemicColorPasted(t) ==
    IF 2 * t < TDen
    THEN LerpColors(COLOR_O2_POOR, COLOR_O2_RICH, Min(TDen, AlphaAt(t)))
    ELSE ColorCopy(COLOR_O2_POOR)

\* type === 'systemic': Red -> Blue
SystemicColor(t) ==
    IF 2 * t < TDen
    THEN LerpColors(COLOR_O2_RICH, COLOR_O2_POOR, Min(TDen, AlphaAt(t)))
    ELSE ColorCopy(COLOR_O2_POOR)

\* a variant of CapillaryColor that uses the windowed systemic law
CapillaryColorWindowed(t) == SystemicColor(t)

\* type === 'capillary': Red -> Blue transition across capillary
CapillaryColor(t) == LerpColors(COLOR_O2_RICH, COLOR_O2_POOR, t)

\* a variant of ColorAt that lets the kind decide before the override
ColorAtKindFirst(type, overrideColor, t) ==
    IF type = "pulmonary" THEN PulmonaryColor(t)
    ELSE IF type = "systemic" THEN SystemicColor(t)
    ELSE IF type = "capillary" THEN CapillaryColor(t)
    ELSE IF overrideColor # Undefined THEN ColorCopy(overrideColor)
    ELSE ColorCopy(ColorWhite)

\* let color = new Color(); if (overrideColor) ... else if (type === ...) ...
ColorAt(type, overrideColor, t) ==
    IF overrideColor # Undefined THEN ColorCopy(overrideColor)
    ELSE IF type = "pulmonary" THEN PulmonaryColor(t)
    ELSE IF type = "systemic" THEN SystemicColor(t)
    ELSE IF type = "capillary" THEN CapillaryColor(t)
    ELSE ColorCopy(ColorWhite)

-----------------------------------------------------------------------------
(* BloodFlow.useFrame: buffers *)

\* a slot of instanceMatrix or instanceColor that no call has written
UnwrittenSlot == [written |-> FALSE]

\* dummy.position.copy(pos).add(particle.offset); dummy.scale.set(scale x 3);
\* pos is the curve's point at t, kept symbolic as the pair (path, t)
MatrixOf(path, type, p) ==
    [ written |-> TRUE,
      at      |-> <<path, p.t>>,
      offset  |-> p.offset,
      scale   |-> ScaleAt(type, p.t) ]

ColorSlotOf(type, overrideColor, p) ==
    [ written |-> TRUE, color |-> ColorAt(type, overrideColor, p.t) ]

\* a variant of WriteSlot without the if (pos) guard
WriteSlotUnguarded(old, pos, new) == new

\* if (pos) { ... setMatrixAt(i, ...) ... setColorAt(i, color) }
WriteSlot(old, pos, new) == IF pos THEN new ELSE old

\* InstancedMesh.setColorAt allocates instanceColor on its first call
ColorBufferAfter(instanceColor, n, anyWrite) ==
    IF instanceColor # Undefined THEN instanceColor
    ELSE IF anyWrite THEN [i \in 1 .. n |-> UnwrittenSlot]
    ELSE Undefined

\* one buffer operation; i is the particle's index (0 for a whole-buffer
\* operation) and pos tells whether getPointAt returned a point
LogEntry(op, i, pos) == [op |-> op, i |-> i, pos |-> pos]

\* what the forEach body does for particle i: the curve sample, and the
\* two buffer writes when the sample is a point
BodyOps(i, bad) ==
    <<LogEntry("getPointAt", i, i \notin bad)>>
    \o (IF i \in bad
        THEN <<>>
        ELSE <<LogEntry("setMatrixAt", i, TRUE), LogEntry("setColorAt", i, TRUE)>>)

RECURSIVE ParticleOps(_, _, _)
\* the operations of particles.forEach for particles i .. n, in order
ParticleOps(i, n, bad) ==
    IF i > n THEN <<>> ELSE BodyOps(i, bad) \o ParticleOps(i + 1, n, bad)

RECURSIVE ParticleOpsMarking(_, _, _)
\* a variant of the loop that sets instanceMatrix.needsUpdate in its body
ParticleOpsMarking(i, n, bad) ==
    IF i > n THEN <<>>
    ELSE BodyOps(i, bad)
         \o <<LogEntry("instanceMatrix.needsUpdate", 0, TRUE)>>
         \o ParticleOpsMarking(i + 1, n, bad)

\* a variant of FrameOps that marks the transform buffer once per particle
FrameOpsPerParticle(n, bad, hasColor) ==
    ParticleOpsMarking(1, n, bad)
    \o (IF hasColor THEN <<LogEntry("instanceColor.needsUpdate", 0, TRUE)>> ELSE <<>>)

\* the buffer operations of one useFrame call that passes the guard
FrameOps(n, bad, hasColor) ==
    ParticleOps(1, n, bad)
    \o <<LogEntry("instanceMatrix.needsUpdate", 0, TRUE)>>
    \o (IF hasColor THEN <<LogEntry("instanceColor.needsUpdate", 0, TRUE)>> ELSE <<>>)

CountOps(ops, op) == Cardinality({k \in 1 .. Len(ops) : ops[k].op = op})

-----------------------------------------------------------------------------
(* Math.sin and Math.pow *)

\* Math.sin on the first quarter turn, at steps of 1/600 of a turn (0.6
\* degrees), in ten-thousandths
SinTable ==
    <<
           0,   105,   209,   314,   419,   523,   628,   732,   837,   941,  1045,  1149,
        1253,  1357,  1461,  1564,  1668,  1771,  1874,  1977,  2079,  2181,  2284,  2385,
        2487,  2588,  2689,  2790,  2890,  2990,  3090,  3190,  3289,  3387,  3486,  3584,
        3681,  3778,  3875,  3971,  4067,  4163,  4258,  4352,  4446,  4540,  4633,  4726,
        4818,  4909,  5000,  5090,  5180,  5270,  5358,  5446,  5534,  5621,  5707,  5793,
        5878,  5962,  6046,  6129,  6211,  6293,  6374,  6455,  6534,  6613,  6691,  6769,
        6845,  6921,  6997,  7071,  7145,  7218,  7290,  7361,  7431,  7501,  7570,  7638,
        7705,  7771,  7837,  7902,  7965,  8028,  8090,  8151,  8211,  8271,  8329,  8387,
        8443,  8499,  8554,  8607,  8660,  8712,  8763,  8813,  8862,  8910,  8957,  9003,
        9048,  9092,  9135,  9178,  9219,  9259,  9298,  9336,  9373,  9409,  9444,  9478,
        9511,  9542,  9573,  9603,  9632,  9659,  9686,  9711,  9736,  9759,  9781,  9803,
        9823,  9842,  9860,  9877,  9893,  9907,  9921,  9934,  9945,  9956,  9965,  9973,
        9980,  9986,  9991,  9995,  9998,  9999, 10000 >>

\* Math.sin(x * Math.PI * 2) for x = a / 600 turns
SinTurn(a) ==
    LET k == a % 600
    IN  IF k <= 150 THEN SinTable[k + 1]
        ELSE IF k <= 300 THEN SinTable[300 - k + 1]
        ELSE IF k <= 450 THEN -SinTable[k - 300 + 1]
        ELSE -SinTable[600 - k + 1]

\* Math.sin(x) for x in thousandths of a radian: the angle is taken to the
\* nearest lower step of the table (one turn is 6.283 rad)
SinMilliRad(x) == SinTurn((x * 600) \div 6283)

\* a variant of Pow12 with an odd exponent
Pow11(s) ==
    LET s2 == (s * s) \div 10000
        s4 == (s2 * s2) \div 10000
        s8 == (s4 * s4) \div 10000
    IN  (((s8 * s2) \div 10000) * s) \div 10000

\* Math.pow(s, 12), s and the result in ten-thousandths
Pow12(s) ==
    LET s2 == (s * s) \div 10000
        s4 == (s2 * s2) \div 10000
        s8 == (s4 * s4) \div 10000
    IN  (s8 * s4) \div 10000

-----------------------------------------------------------------------------
(* HeartChamber and LungShape: the oscillators *)

\* the four HeartChamber instances: phaseOffset and scale in hundredths
Chambers ==
    [ RA |-> [phaseOffset |-> 15, scale |-> <<90, 90, 90>>],
      LA |-> [phaseOffset |-> 15, scale |-> <<80, 80, 80>>],
      RV |-> [phaseOffset |-> 0,  scale |-> <<100, 140, 100>>],
      LV |-> [phaseOffset |-> 0,  scale |-> <<110, 160, 110>>] ]

ChamberLabels == DOMAIN Chambers

\* the two LungShape instances and the axis scales of their mesh, hundredths
LungLabels == {"Left Lung", "Right Lung"}
LungAxes == <<140, 220, 120>>

\* a variant of PhaseOf that beats at a fixed 72 per minute
PhaseOfFixedRate(time, bpm, phaseOffset) == time * 72 + 6 * phaseOffset

\* time * beatFreq + phaseOffset with beatFreq = bpm / 60, in 1/600 of a
\* turn: time is tenths of a second, phaseOffset hundredths of a turn
PhaseOf(time, bpm, phaseOffset) == time * bpm + 6 * phaseOffset

\* beat = Math.pow(Math.sin(phase * Math.PI * 2), 12), ten-thousandths
BeatAt(time, bpm, phaseOffset) == Pow12(SinTurn(PhaseOf(time, bpm, phaseOffset)))

\* pulse = 1 + beat * 0.1, ten-thousandths
PulseAt(time, bpm, phaseOffset) == 10000 + BeatAt(time, bpm, phaseOffset) \div 10

\* the mesh scale a chamber or a lung has before its first frame
UnitScale == <<1000000, 1000000, 1000000>>

\* axes times a factor in ten-thousandths: the result is in millionths
ScaleSet(axes, factor) == <<axes[1] * factor, axes[2] * factor, axes[3] * factor>>

\* HeartChamber's useFrame callback: the new scale of the mesh, and the
\* elapsed time and bpm the callback read
HeartChamberFrame(ch, time, bpm) ==
    [ scale |-> ScaleSet(ch.scale, PulseAt(time, bpm, ch.phaseOffset)),
      seen  |-> <<time, bpm>> ]

\* breath = Math.sin(clock.getElapsedTime() * 0.8) * 0.05 + 1
BreathAt(time) == SinMilliRad(time * 80) \div 20 + 10000

\* LungShape's useFrame callback
LungShapeFrame(time) ==
    [ scale |-> ScaleSet(LungAxes, BreathAt(time)),
      seen  |-> <<time>> ]

\* a variant of SceneFrame in which the lungs breathe at respirationRate
SceneFrameWired(s, time) ==
    [ chambers |-> [c \in ChamberLabels |-> HeartChamberFrame(Chambers[c], time, s.heartRate)],
      lungs    |-> [l \in LungLabels |->
                      [ scale |-> ScaleSet(LungAxes,
                                           SinTurn(time * s.respirationRate) \div 20 + 10000),
                        seen  |-> <<time>> ]] ]

\* what one frame makes of the chambers and the lungs that CirculatorySystem
\* renders from the settings s, at elapsed time time
SceneFrame(s, time) ==
    [ chambers |-> [c \in ChamberLabels |-> HeartChamberFrame(Chambers[c], time, s.heartRate)],
      lungs    |-> [l \in LungLabels |-> LungShapeFrame(time)] ]

-----------------------------------------------------------------------------
(* The Flow Units of the scene: every BloodFlow call site *)

\* CirculatorySystem's own BloodFlow elements: count, radius (0.1 when the
\* prop is absent), type and overrideColor for each vessel
VesselFlow(count, radius, type, overrideColor) ==
    [count |-> count, radius |-> radius, type |-> type, overrideColor |-> overrideColor]

VesselFlows ==
    [ pathRAtoRV               |-> VesselFlow(15, 8, "internal", COLOR_O2_POOR),
      pathLAtoLV               |-> VesselFlow(15, 8, "internal", COLOR_O2_RICH),
      pulmonaryArteryLeft      |-> VesselFlow(30, 10, "undefined", COLOR_O2_POOR),
      pulmonaryArteryRight     |-> VesselFlow(30, 10, "undefined", COLOR_O2_POOR),
      pulmonaryVeinLeftSup     |-> VesselFlow(20, 10, "undefined", COLOR_O2_RICH),
      pulmonaryVeinLeftInf     |-> VesselFlow(20, 10, "undefined", COLOR_O2_RICH),
      pulmonaryVeinRightSup    |-> VesselFlow(20, 10, "undefined", COLOR_O2_RICH),
      pulmonaryVeinRightInf    |-> VesselFlow(20, 10, "undefined", COLOR_O2_RICH),
      systemicUpperArtery      |-> VesselFlow(40, 10, "systemic", COLOR_O2_RICH),
      systemicUpperVein        |-> VesselFlow(40, 10, "systemic", COLOR_O2_POOR),
      systemicLowerArtery      |-> VesselFlow(40, 10, "systemic", COLOR_O2_RICH),
      systemicLowerVein        |-> VesselFlow(40, 10, "systemic", COLOR_O2_POOR),
      brachiocephalicArtery    |-> VesselFlow(15, 10, "undefined", COLOR_O2_RICH),
      leftCarotidArtery        |-> VesselFlow(15, 10, "undefined", COLOR_O2_RICH),
      leftSubclavianArtery     |-> VesselFlow(15, 10, "undefined", COLOR_O2_RICH),
      leftIliacArtery          |-> VesselFlow(15, 10, "undefined", COLOR_O2_RICH),
      rightIliacArtery         |-> VesselFlow(15, 10, "undefined", COLOR_O2_RICH),
      rightBrachiocephalicVein |-> VesselFlow(15, 10, "undefined", COLOR_O2_POOR),
      leftBrachiocephalicVein  |-> VesselFlow(15, 10, "undefined", COLOR_O2_POOR),
      leftIliacVein            |-> VesselFlow(15, 10, "undefined", COLOR_O2_POOR),
      rightIliacVein           |-> VesselFlow(15, 10, "undefined", COLOR_O2_POOR) ]

BedNames == {"upperBed", "lowerBed"}

\* the MicrovesselGroup elements: the color prop each group gets
MicrovesselColor ==
    [ upperArterioles |-> "#fca5a5", lowerArterioles |-> "#fca5a5",
      upperVenules    |-> "#93c5fd", lowerVenules    |-> "#93c5fd" ]

\* a variant of MicrovesselOverride that passes on new Color(color), the
\* colour of the group's tubes
MicrovesselOverrideTube(color) ==
    IF color = "#fca5a5" THEN <<252, 165, 165>> ELSE <<147, 197, 253>>

\* MicrovesselGroup: new Color(color === '#fca5a5' ? '#ef4444' : '#3b82f6')
MicrovesselOverride(color) ==
    IF color = "#fca5a5" THEN COLOR_O2_RICH ELSE COLOR_O2_POOR

\* one mounted BloodFlow element: the component that renders it, whether
\* that element sits inside the settings.showVessels block, the curve its
\* path prop is bound to (group and index, index 0 for a named vessel) and
\* its other props
FlowUnit(parent, gated, group, index, props) ==
    [ parent |-> parent, gated |-> gated, group |-> group, index |-> index,
      props |-> props ]

\* the curve of the built scene c that the path prop of f is
CurveOf(c, f) ==
    IF f.group \in BedNames THEN c[f.group].bridges[f.index]
    ELSE IF f.group \in FanNames THEN c.paths[f.group][f.index]
    ELSE c.paths[f.group]

\* CapillaryBed: bridges.map((curve, i) => <BloodFlow ... />)
BridgeFlowUnits(c) ==
    UNION { { FlowUnit("CapillaryBed", FALSE, b, i,
                [ path |-> BridgeProps.path, count |-> BridgeProps.count,
                  speedFactor |-> BridgeProps.speedFactor, radius |-> BridgeProps.radius,
                  type |-> "capillary", overrideColor |-> Undefined ]) :
              i \in 1 .. Len(c[b].bridges) } :
            b \in BedNames }

\* CirculatorySystem: the BloodFlow elements outside the showVessels block
VesselFlowUnits(c) ==
    { FlowUnit("CirculatorySystem", FALSE, n, 0,
               [ path |-> "vessel", count |-> VesselFlows[n].count,
                 speedFactor |-> 10, radius |-> VesselFlows[n].radius,
                 type |-> VesselFlows[n].type,
                 overrideColor |-> VesselFlows[n].overrideColor ]) :
        n \in VesselNames }

\* MicrovesselGroup: paths.map((path, i) => ... <BloodFlow ... />), rendered
\* inside {settings.showVessels && ( ... )}
MicrovesselFlowUnits(c) ==
    UNION { { FlowUnit("MicrovesselGroup", TRUE, g, k,
                [ path |-> "microvessel", count |-> 8, speedFactor |-> 10, radius |-> 5,
                  type |-> "undefined",
                  overrideColor |-> MicrovesselOverride(MicrovesselColor[g]) ]) :
              k \in 1 .. Len(c.paths[g]) } :
            g \in FanNames }

\* every BloodFlow element the scene may mount
FlowUnits(c) == BridgeFlowUnits(c) \cup VesselFlowUnits(c) \cup MicrovesselFlowUnits(c)

\* the elements mounted under the settings s
MountedFlowUnits(c, s) == {f \in FlowUnits(c) : f.gated => s.showVessels}

-----------------------------------------------------------------------------
(* Inputs *)

\* frame deltas, in sixtieths of a second: 0, one 60 Hz frame, and a long
\* frame (a tab that was in the background)
Deltas == {0, 1, 200}

\* the sets of particles whose curve sample may be missing in one call:
\* none, the first particle only, all of them
BadSets(n) == {{}, {1}, 1 .. n}

\* a variant of RangeValue for an input without min and max
RangeValueUnbounded(min, max, raw) == raw

\* <input type="range" min max>: the value the element reports for a
\* pointer or key position raw, in steps: the browser keeps it within
\* [min, max]; parseInt / parseFloat of its string is that number
RangeValue(min, max, raw) == Max(min, Min(max, raw))

\* values of the Circulation Speed slider (min 0.1, max 3.0, step 0.1):
\* the middle of the track and a drag past its right end
FlowSpeedInputs == {RangeValue(1, 30, raw) : raw \in {10, 42}}

\* values of the Heart Rate slider (min 30, max 180): drags past both ends
HeartRateInputs == {RangeValue(30, 180, raw) : raw \in {12, 260}}

\* values of the Respiration Rate slider (min 5, max 40): a drag past the
\* right end
RespirationRateInputs == {RangeValue(5, 40, raw) : raw \in {55}}

\* time that passes between two frames of the scene, tenths of a second
ClockSteps == {0, 5}

\* the Flow Units the scene is observed through: a bridge of the upper bed,
\* the internal flow from RA to RV, and the first upper arteriole
ObservedFlowUnits(c) ==
    { f \in FlowUnits(c) :
        <<f.group, f.index>> \in
            {<<"upperBed", 1>>, <<"pathRAtoRV", 0>>, <<"upperArterioles", 1>>} }

-----------------------------------------------------------------------------
(* State machine *)

InitialSettings ==
    [heartRate |-> 72, flowSpeed |-> 10, respirationRate |-> 16, showVessels |-> TRUE]

\* <instancedMesh ref={meshRef} args={[undefined, undefined, count]}> once
\* mounted: the ref is set, no slot is written, instanceColor is null
NewMesh(count) ==
    [ current        |-> TRUE,
      instanceMatrix |-> [i \in 1 .. PoolSize(count) |-> UnwrittenSlot],
      matrixVersion  |-> 0,
      instanceColor  |-> Undefined,
      colorVersion   |-> 0 ]

\* the mesh of an unmounted BloodFlow: React has reset the ref to null
NoMesh ==
    [ current        |-> FALSE,
      instanceMatrix |-> <<>>,
      matrixVersion  |-> 0,
      instanceColor  |-> Undefined,
      colorVersion   |-> 0 ]

Init ==
    /\ settings = InitialSettings
    /\ \E u \in UnitProps, seq \in RandomSeqs :
        /\ curves = BuildScene(seq)
        /\ unit = u
        /\ particles = NewPool(seq, u.count, u.radius)
    /\ mesh = NewMesh(unit.count)
    /\ log = <<>>
    /\ hist = [ n |-> 0, fixed |-> TRUE, delta |-> 0, speed |-> 0,
                t0 |-> [i \in 1 .. Len(particles) |-> particles[i].t] ]
    /\ site = [ parent    |-> IF unit.path = BridgeProps.path
                               THEN "CapillaryBed" ELSE "CirculatorySystem",
                gated     |-> FALSE,
                mounted   |-> TRUE,
                destroyed |-> FALSE,
                recreated |-> FALSE ]
    /\ clock = 0
    /\ chambers = [c \in ChamberLabels |-> [scale |-> UnitScale, seen |-> Undefined]]
    /\ lungs = [l \in LungLabels |-> [scale |-> UnitScale, seen |-> Undefined]]

\* the re-render that follows a settings change, from old to new: a
\* BloodFlow inside {settings.showVessels && ( ... )} is unmounted when the
\* flag turns false (its pool and mesh are dropped) and mounted anew when it
\* turns true (useMemo draws a new pool); every other element is kept.
\* The observer keeps its count of calls and stops comparing the pool with
\* the first one.
Rerender(old, new) ==
    IF site.gated /\ old.showVessels /\ ~new.showVessels
    THEN /\ particles' = <<>>
         /\ mesh' = NoMesh
         /\ log' = <<>>
         /\ site' = [site EXCEPT !.mounted = FALSE, !.destroyed = TRUE]
         /\ hist' = [hist EXCEPT !.fixed = FALSE, !.delta = 0, !.speed = 0, !.t0 = <<>>]
    ELSE IF site.gated /\ ~old.showVessels /\ new.showVessels
    THEN /\ \E seq \in RandomSeqs : particles' = NewPool(seq, unit.count, unit.radius)
         /\ mesh' = NewMesh(unit.count)
         /\ log' = <<>>
         /\ site' = [site EXCEPT !.mounted = TRUE, !.recreated = TRUE]
         /\ hist' = [hist EXCEPT !.t0 = [i \in 1 .. Len(particles') |-> particles'[i].t]]
    ELSE UNCHANGED <<particles, mesh, log, hist, site>>

\* a variant of HandleChange that sets the state to the initial record with
\* the one field replaced, not to the previous record
HandleChangeReset(key, value) ==
    /\ settings' = [InitialSettings EXCEPT ![key] = value]
    /\ Rerender(settings, settings')
    /\ UNCHANGED <<curves, unit, clock, chambers, lungs>>

\* a variant of HandleChange whose re-render builds the curves again
HandleChangeRebuilding(key, value) ==
    /\ settings' = [settings EXCEPT ![key] = value]
    /\ Rerender(settings, settings')
    /\ \E seq \in RandomSeqs : curves' = BuildScene(seq)
    /\ UNCHANGED <<unit, clock, chambers, lungs>>

\* Controls.handleChange(key, value): setSettings(prev => ({...prev, [key]: value}))
\* and the re-render of App that the new state causes
HandleChange(key, value) ==
    /\ settings' = [settings EXCEPT ![key] = value]
    /\ Rerender(settings, settings')
    /\ UNCHANGED <<curves, unit, clock, chambers, lungs>>

\* the pool after the forEach of one frame with this delta
Moved(delta) ==
    LET speed == SpeedProp(settings.flowSpeed, unit)
    IN  [i \in 1 .. Len(particles) |->
            MoveParticle(particles[i], StepOf(speed, delta, particles[i].speedMod))]

\* the buffers after that forEach and the two needsUpdate assignments
MeshAfter(delta, bad) ==
    LET n      == Len(particles)
        moved  == Moved(delta)
        pos(i) == i \notin bad
        colors == ColorBufferAfter(mesh.instanceColor, n, \E i \in 1 .. n : pos(i))
        ops    == FrameOps(n, bad, colors # Undefined)
    IN  [ mesh EXCEPT
            !.instanceMatrix =
                [i \in 1 .. n |->
                    WriteSlot(@[i], pos(i), MatrixOf(unit.path, unit.type, moved[i]))],
            !.instanceColor =
                IF colors = Undefined THEN Undefined
                ELSE [i \in 1 .. n |->
                        WriteSlot(colors[i], pos(i),
                                  ColorSlotOf(unit.type, unit.overrideColor, moved[i]))],
            !.matrixVersion = @ + CountOps(ops, "instanceMatrix.needsUpdate"),
            !.colorVersion = @ + CountOps(ops, "instanceColor.needsUpdate") ]

\* the buffer operations of that call, in order
LogAfter(bad) ==
    LET n == Len(particles)
    IN  FrameOps(n, bad,
                 ColorBufferAfter(mesh.instanceColor, n, \E i \in 1 .. n : i \notin bad)
                    # Undefined)

\* BloodFlow's useFrame callback, called with the frame delta; bad is the set
\* of particles for which path.getPointAt returns no point in this call
UseFrame(delta, bad) ==
    /\ hist.n < MaxTicks
    /\ IF ~mesh.current \/ unit.path = NoPath
       THEN UNCHANGED <<particles, mesh, log, hist>>
       ELSE
        LET speed == SpeedProp(settings.flowSpeed, unit)
        IN  /\ particles' = Moved(delta)
            /\ mesh' = MeshAfter(delta, bad)
            /\ log' = LogAfter(bad)
            /\ hist' =
                [ hist EXCEPT
                    !.n = @ + 1,
                    !.fixed = @ /\ (hist.n = 0 \/ (hist.delta = delta /\ hist.speed = speed)),
                    !.delta = IF hist.n = 0 THEN delta ELSE @,
                    !.speed = IF hist.n = 0 THEN speed ELSE @ ]
    /\ UNCHANGED <<settings, curves, unit, site>>

\* one call of the Flow Unit's callback on its own
Tick ==
    /\ \E delta \in Deltas, bad \in BadSets(Len(particles)) : UseFrame(delta, bad)
    /\ UNCHANGED <<clock, chambers, lungs>>

ChangeFlowSpeed == \E v \in FlowSpeedInputs : HandleChange("flowSpeed", v)

Next == Tick \/ ChangeFlowSpeed

Spec == Init /\ [][Next]_vars

-----------------------------------------------------------------------------
(* The whole scene: every frame callback, every control *)

\* the scene as mounted by App with the initial settings, observed through
\* one of its Flow Units
SceneInit ==
    /\ settings = InitialSettings
    /\ \E seq \in RandomSeqs :
        /\ curves = BuildScene(seq)
        /\ \E f \in ObservedFlowUnits(curves) :
            /\ unit = f.props
            /\ site = [ parent    |-> f.parent,
                        gated     |-> f.gated,
                        mounted   |-> TRUE,
                        destroyed |-> FALSE,
                        recreated |-> FALSE ]
        /\ particles = NewPool(seq, unit.count, unit.radius)
    /\ mesh = NewMesh(unit.count)
    /\ log = <<>>
    /\ hist = [ n |-> 0, fixed |-> TRUE, delta |-> 0, speed |-> 0,
                t0 |-> [i \in 1 .. Len(particles) |-> particles[i].t] ]
    /\ clock = 0
    /\ chambers = [c \in ChamberLabels |-> [scale |-> UnitScale, seen |-> Undefined]]
    /\ lungs = [l \in LungLabels |-> [scale |-> UnitScale, seen |-> Undefined]]

\* one frame of the render loop, dt after the previous one: the clock
\* advances, then every subscribed useFrame callback runs (the chambers, the
\* lungs and, while it is mounted, the Flow Unit, whose curve yields a point
\* for every particle); the frame delta is dt, in sixtieths of a second
RenderFrame(dt) ==
    /\ clock + dt <= MaxClock
    /\ clock' = clock + dt
    /\ chambers' = SceneFrame(settings, clock').chambers
    /\ lungs' = SceneFrame(settings, clock').lungs
    /\ IF site.mounted
       THEN UseFrame(6 * dt, {})
       ELSE UNCHANGED <<settings, curves, unit, site, particles, mesh, log, hist>>

Frame == \E dt \in ClockSteps : RenderFrame(dt)

ChangeHeartRate == \E v \in HeartRateInputs : HandleChange("heartRate", v)

ChangeRespirationRate == \E v \in RespirationRateInputs : HandleChange("respirationRate", v)

\* onClick={() => handleChange('showVessels', !settings.showVessels)}
ToggleShowVessels == HandleChange("showVessels", ~settings.showVessels)

SceneNext ==
    \/ Frame
    \/ ChangeHeartRate
    \/ ChangeRespirationRate
    \/ ChangeFlowSpeed
    \/ ToggleShowVessels

SceneSpec == SceneInit /\ [][SceneNext]_vars

------------------------------------------------------------------------------
(* One Flow Unit in a render loop that never stops *)

\* frame deltas of a running loop, in sixtieths of a second: all positive;
\* a one-second frame and a long frame
PositiveDeltas == {60, 400}

\* the scene as mounted, observed through one of its Flow Units, at any of
\* the slider's flow speeds (all positive)
LiveInit ==
    /\ \E v \in FlowSpeedInputs : settings = [InitialSettings EXCEPT !.flowSpeed = v]
    /\ \E seq \in RandomSeqs :
        /\ curves = BuildScene(seq)
        /\ \E f \in ObservedFlowUnits(curves) :
            /\ unit = f.props
            /\ site = [ parent    |-> f.parent,
                        gated     |-> f.gated,
                        mounted   |-> TRUE,
                        destroyed |-> FALSE,
                        recreated |-> FALSE ]
        /\ particles = NewPool(seq, unit.count, unit.radius)
    /\ mesh = NewMesh(unit.count)
    /\ log = <<>>
    /\ hist = [ n |-> 0, fixed |-> TRUE, delta |-> 0, speed |-> 0,
                t0 |-> [i \in 1 .. Len(particles) |-> particles[i].t] ]
    /\ clock = 0
    /\ chambers = [c \in ChamberLabels |-> [scale |-> UnitScale, seen |-> Undefined]]
    /\ lungs = [l \in LungLabels |-> [scale |-> UnitScale, seen |-> Undefined]]

\* one call of useFrame in the running loop; the curve yields a point for
\* every particle. A behaviour is followed while every t is within MaxLaps
\* curve lengths; the call counter and the buffers' version counters are
\* kept within MaxTicks so that the loop can run forever
LiveFrame(delta) ==
    /\ \A i \in 1 .. Len(particles) : Moved(delta)[i].t <= MaxLaps * TDen
    /\ particles' = Moved(delta)
    /\ mesh' = [ MeshAfter(delta, {}) EXCEPT
                    !.matrixVersion = Min(@, MaxTicks),
                    !.colorVersion = Min(@, MaxTicks) ]
    /\ log' = LogAfter({})
    /\ hist' = [hist EXCEPT !.n = (@ + 1) % (MaxTicks + 1)]
    /\ UNCHANGED <<settings, curves, unit, site, clock, chambers, lungs>>

LiveTick == \E delta \in PositiveDeltas : LiveFrame(delta)

\* requestAnimationFrame keeps calling the loop: a frame is always due
LiveSpec == LiveInit /\ [][LiveTick]_vars /\ WF_vars(LiveTick)

------------------------------------------------------------------------------
(* The chambers over one beat period *)

\* the steps of one turn of the sine table
TurnSteps == 4 * (Len(SinTable) - 1)

\* heart rates of the sweep: both ends of the slider and the initial value
BeatRates == {RangeValue(30, 180, raw) : raw \in {12, 72, 260}}

\* the pulse HeartChamber's callback computes at the k-th of the TurnSteps
\* equal parts of the beat period 60 / bpm s: the elapsed time is k / bpm
\* tenths of a second, so time and phaseOffset are passed times bpm and the
\* phase is divided by bpm, exactly
SamplePulse(k, bpm, phaseOffset) ==
    10000 + Pow12(SinTurn(PhaseOf(k, bpm, bpm * phaseOffset) \div bpm)) \div 10

\* pulse at the peak of the beat: 1 + 1 * 0.1
PeakPulse == 10000 + 10000 \div 10

\* the scene at elapsed time 0 with the heart rate set; for each chamber
\* peaks counts the frames of the sweep in which its scale was at the peak
BeatInit ==
    /\ \E v \in BeatRates : settings = [InitialSettings EXCEPT !.heartRate = v]
    /\ \E seq \in RandomSeqs :
        /\ curves = BuildScene(seq)
        /\ \E f \in ObservedFlowUnits(curves) :
            /\ unit = f.props
            /\ site = [ parent    |-> f.parent,
                        gated     |-> f.gated,
                        mounted   |-> TRUE,
                        destroyed |-> FALSE,
                        recreated |-> FALSE ]
        /\ particles = NewPool(seq, unit.count, unit.radius)
    /\ mesh = NewMesh(unit.count)
    /\ log = <<>>
    /\ hist = [ n |-> 0, fixed |-> TRUE, delta |-> 0, speed |-> 0,
                t0 |-> [i \in 1 .. Len(particles) |-> particles[i].t] ]
    /\ clock = 0
    /\ chambers = [c \in ChamberLabels |->
                      [scale |-> UnitScale, seen |-> Undefined, peaks |-> 0]]
    /\ lungs = [l \in LungLabels |-> [scale |-> UnitScale, seen |-> Undefined]]

\* the four HeartChamber callbacks at the next sample of the beat period;
\* here the clock counts samples, TurnSteps to the period
BeatFrame ==
    /\ clock < TurnSteps
    /\ clock' = clock + 1
    /\ chambers' =
        [c \in ChamberLabels |->
            LET pulse == SamplePulse(clock', settings.heartRate, Chambers[c].phaseOffset)
            IN  [ scale |-> ScaleSet(Chambers[c].scale, pulse),
                  seen  |-> <<clock', settings.heartRate>>,
                  peaks |-> chambers[c].peaks + (IF pulse = PeakPulse THEN 1 ELSE 0) ]]
    /\ UNCHANGED <<settings, curves, unit, site, particles, mesh, log, hist, lungs>>

BeatSpec == BeatInit /\ [][BeatFrame]_vars

-----------------------------------------------------------------------------
(* Reading the state *)

Pool == 1 .. Len(particles)

MatrixSlot(m, i) == m.instanceMatrix[i]

\* the colour slot of particle i; without a buffer no slot has been written
ColorSlot(m, i) ==
    IF m.instanceColor = Undefined THEN UnwrittenSlot ELSE m.instanceColor[i]

\* particles whose slots hold what some useFrame call wrote
Written == {i \in Pool : MatrixSlot(mesh, i).written}

\* the t at which the slots of a written particle were computed
SlotT(i) == MatrixSlot(mesh, i).at[2]

\* the sample results of the latest call: particles with and without a point
Sampled(l, ok) ==
    {l[k].i : k \in {j \in 1 .. Len(l) : l[j].op = "getPointAt" /\ l[j].pos = ok}}

\* positions in l of the operations named op
OpsAt(l, op) == {k \in 1 .. Len(l) : l[k].op = op}

-----------------------------------------------------------------------------
(* Claims *)

\* C1: for every particle, in every state reachable by ticks with any frame
\* delta >= 0 and any flowSpeed, 0 <= t < 1: t is never 1 and never above 1.
C1_WrapInvariant ==
    \A i \in Pool : 0 <= particles[i].t /\ particles[i].t < TDen

\* C2: with flowSpeed 1.0, delta 1/60 and speedMod 1.0 one tick adds 0.0025;
\* speed is flowSpeed, or 0.6 * flowSpeed for a capillary bridge; and while
\* every tick so far had the same delta and speed, t after N ticks is
\* (t0 + N * step) mod 1 with step = speed * delta * 0.15 * speedMod.
C2_AdvanceLaw ==
    /\ 400 * StepOf(SpeedProp(10, VesselProps), 1, 50) = TDen
    /\ SpeedProp(settings.flowSpeed, unit) =
        (IF unit.path = "bridge" THEN 6 ELSE 10) * settings.flowSpeed
    /\ hist.fixed =>
        \A i \in Pool :
            particles[i].t =
                (hist.t0[i]
                 + hist.n * StepOf(hist.speed, hist.delta, particles[i].speedMod)) % TDen

\* C3: in a tick where the curve sample of a particle is no point, that
\* particle's transform slot and colour slot stay as the previous tick left
\* them, and every particle with a point gets the slots computed from its
\* new t. (The model has no error state: the call always completes.)
C3_SkipOnInvalidSample ==
    [][ hist'.n = hist.n + 1 =>
          /\ Sampled(log', TRUE) \cup Sampled(log', FALSE) = Pool
          /\ \A i \in Sampled(log', FALSE) :
                /\ MatrixSlot(mesh', i) = MatrixSlot(mesh, i)
                /\ ColorSlot(mesh', i) = ColorSlot(mesh, i)
          /\ \A i \in Sampled(log', TRUE) :
                /\ MatrixSlot(mesh', i) =
                     [ written |-> TRUE,
                       at      |-> <<unit.path, particles'[i].t>>,
                       offset  |-> particles[i].offset,
                       scale   |-> ScaleAt(unit.type, particles'[i].t) ]
                /\ ColorSlot(mesh', i) =
                     [ written |-> TRUE,
                       color   |-> ColorAt(unit.type, unit.overrideColor, particles'[i].t) ]
      ]_vars

\* a second tick in which particle 1 has no point and keeps the slots of the
\* first tick (computed at another t) while particle 2 is updated
C3_Witness ==
    /\ hist.n = 2
    /\ Sampled(log, FALSE) = {1}
    /\ 2 \in Sampled(log, TRUE)
    /\ MatrixSlot(mesh, 1).written
    /\ SlotT(1) # particles[1].t
    /\ SlotT(2) = particles[2].t

\* C4: with an override colour, every colour written for any particle, of any
\* kind and at any t, is the override colour.
C4_OverridePrecedence ==
    unit.overrideColor # Undefined =>
        \A i \in Written : ColorSlot(mesh, i).color = ColorCopy(unit.overrideColor)

\* a systemic unit with the red override holds red for a particle at t >= 0.5,
\* where the systemic law gives blue
C4_Witness ==
    /\ unit.type = "systemic"
    /\ unit.overrideColor = COLOR_O2_RICH
    /\ \E i \in Written :
        /\ 2 * SlotT(i) >= TDen
        /\ ColorSlot(mesh, i).color = ColorCopy(COLOR_O2_RICH)

\* the weight of the second colour in a written colour, read from the red
\* channel, as a multiple of (to[1] - from[1])
Toward(c, from) == c[1] - from[1] * TDen

\* C5: pulmonary without override: blue for t <= 0.3, red for t >= 0.5 (t = 1
\* included), and for 0.3 < t < 0.5 the blend blue -> red with weight
\* (t - 0.3) / 0.2; the weight never decreases as t grows.
C5_PulmonaryLaw ==
    (unit.type = "pulmonary" /\ unit.overrideColor = Undefined) =>
        /\ \A i \in Written :
            LET t == SlotT(i)
                c == ColorSlot(mesh, i).color
            IN  /\ 10 * t <= 3 * TDen => c = ColorCopy(COLOR_O2_POOR)
                /\ 2 * t >= TDen => c = ColorCopy(COLOR_O2_RICH)
                /\ (10 * t > 3 * TDen /\ 2 * t < TDen) =>
                    \A k \in 1 .. 3 :
                        2 * c[k] = 2 * COLOR_O2_POOR[k] * TDen
                                   + (COLOR_O2_RICH[k] - COLOR_O2_POOR[k]) * (10 * t - 3 * TDen)
        /\ \A i, j \in Written :
            SlotT(i) <= SlotT(j) =>
                Toward(ColorSlot(mesh, i).color, COLOR_O2_POOR)
                    <= Toward(ColorSlot(mesh, j).color, COLOR_O2_POOR)

\* a pulmonary unit with one particle inside the window and one at t = 1
C5_Witness ==
    /\ unit.type = "pulmonary"
    /\ unit.overrideColor = Undefined
    /\ \E i \in Written : 10 * SlotT(i) > 3 * TDen /\ 2 * SlotT(i) < TDen
    /\ \E i \in Written : SlotT(i) = TDen

\* C6: systemic without override is the pulmonary law with the two colours
\* swapped: channel by channel the two laws add up to red + blue at every t;
\* red up to 0.3, blue from 0.5 on.
C6_SystemicMirror ==
    (unit.type = "systemic" /\ unit.overrideColor = Undefined) =>
        \A i \in Written :
            LET t == SlotT(i)
                c == ColorSlot(mesh, i).color
                p == ColorAt("pulmonary", Undefined, t)
            IN  /\ \A k \in 1 .. 3 :
                    c[k] + p[k] = (COLOR_O2_RICH[k] + COLOR_O2_POOR[k]) * TDen
                /\ 10 * t <= 3 * TDen => c = ColorCopy(COLOR_O2_RICH)
                /\ 2 * t >= TDen => c = ColorCopy(COLOR_O2_POOR)

\* a systemic unit with a particle inside the window, neither red nor blue
C6_Witness ==
    /\ unit.type = "systemic"
    /\ unit.overrideColor = Undefined
    /\ \E i \in Written :
        /\ 10 * SlotT(i) > 3 * TDen /\ 2 * SlotT(i) < TDen
        /\ ColorSlot(mesh, i).color \notin
            {ColorCopy(COLOR_O2_RICH), ColorCopy(COLOR_O2_POOR)}

\* C7: capillary without override: the blend red -> blue with weight exactly
\* t at every t: red at t = 0, blue at t = 1, no plateau and no window.
C7_CapillaryLaw ==
    (unit.type = "capillary" /\ unit.overrideColor = Undefined) =>
        \A i \in Written :
            LET t == SlotT(i)
                c == ColorSlot(mesh, i).color
            IN  /\ \A k \in 1 .. 3 :
                    c[k] = COLOR_O2_RICH[k] * TDen
                           + (COLOR_O2_POOR[k] - COLOR_O2_RICH[k]) * t
                /\ t = 0 => c = ColorCopy(COLOR_O2_RICH)
                /\ t = TDen => c = ColorCopy(COLOR_O2_POOR)
                /\ (c = ColorCopy(COLOR_O2_RICH)) => t = 0
                /\ (c = ColorCopy(COLOR_O2_POOR)) => t = TDen

\* a capillary bridge unit that has written a particle at t = 1 and one
\* strictly between the ends
C7_Witness ==
    /\ unit.type = "capillary"
    /\ unit.overrideColor = Undefined
    /\ \E i \in Written : SlotT(i) = TDen
    /\ \E i \in Written : 0 < SlotT(i) /\ 10 * SlotT(i) < 3 * TDen

\* the base scale of a kind, in hundredths
BaseScale(type) ==
    CASE type = "internal" -> 50
      [] type = "capillary" -> 35
      [] OTHER -> 70

\* C8: the scale is a base value per kind, internal below default and
\* capillary below every scale of every kind; a non-capillary particle is
\* narrowed (below its base) while 0.4 < t < 0.6 and has its base scale
\* otherwise; a capillary particle always has its base scale.
C8_ScaleLaw ==
    /\ BaseScale("internal") < BaseScale("undefined")
    /\ \A i \in Written :
        LET t == SlotT(i)
            s == MatrixSlot(mesh, i).scale
            inside == 10 * t > 4 * TDen /\ 10 * t < 6 * TDen
        IN  /\ unit.type = "capillary" => s = BaseScale("capillary")
            /\ unit.type # "capillary" => s > BaseScale("capillary")
            /\ (unit.type # "capillary" /\ inside) =>
                    s = 40 /\ s < BaseScale(unit.type)
            /\ (unit.type # "capillary" /\ ~inside) => s = BaseScale(unit.type)

\* an internal unit with one particle narrowed and one at its base scale
C8_Witness ==
    /\ unit.type = "internal"
    /\ \E i \in Written : MatrixSlot(mesh, i).scale = 40
    /\ \E i \in Written : MatrixSlot(mesh, i).scale = 50

\* the transform buffer is marked exactly once in the latest call, after
\* every per-particle operation
MatrixMarkedOnceAtEnd ==
    /\ Cardinality(OpsAt(log, "instanceMatrix.needsUpdate")) = 1
    /\ \A m \in OpsAt(log, "instanceMatrix.needsUpdate") :
        \A k \in 1 .. Len(log) : log[k].i # 0 => k < m

\* C9 as stated: in every tick that processes the particles the transform
\* buffer is marked dirty exactly once, after all particles, and the colour
\* buffer is marked dirty in that same tick.
C9_DirtyMarking ==
    hist.n >= 1 =>
        /\ MatrixMarkedOnceAtEnd
        /\ Cardinality(OpsAt(log, "instanceColor.needsUpdate")) = 1

\* C9 as amended: the colour buffer is marked (once, after all particles) in
\* exactly the ticks in which it exists, that is, once some call has written
\* a colour; the versions count the marks.
C9_DirtyMarkingAmended ==
    /\ hist.n >= 1 =>
        /\ MatrixMarkedOnceAtEnd
        /\ Cardinality(OpsAt(log, "instanceColor.needsUpdate"))
            = (IF mesh.instanceColor # Undefined THEN 1 ELSE 0)
        /\ \A m \in OpsAt(log, "instanceColor.needsUpdate") :
            \A k \in 1 .. Len(log) : log[k].i # 0 => k < m
    /\ mesh.matrixVersion = hist.n
    /\ mesh.colorVersion <= hist.n
    /\ (mesh.instanceColor = Undefined) = (Written = {})

\* a tick that wrote both particles and marked both buffers
C9_Witness ==
    /\ hist.n >= 1
    /\ Cardinality(OpsAt(log, "setMatrixAt")) >= 2
    /\ OpsAt(log, "instanceColor.needsUpdate") # {}
    /\ mesh.colorVersion = hist.n

\* C10: every spline built by the Curve Builder has at least 3 control
\* points and every capillary bridge bezier has exactly 4.
C10_ControlPoints ==
    /\ \A c \in SplinesOf(curves) :
        c.kind = "CatmullRomCurve3" /\ Len(c.points) >= 3
    /\ \A b \in BeziersOf(curves) :
        b.kind = "CubicBezierCurve3" /\ Len(b.points) = 4

-----------------------------------------------------------------------------
(* Claims about the whole scene, under SceneSpec *)

\* C11 (Flow Unit lifetime): once the scene is mounted, no sequence of
\* frames and settings changes (heartRate, flowSpeed, respirationRate,
\* showVessels) destroys the Flow Unit or creates its particle pool again.
C11_FlowUnitLifetime ==
    /\ site.mounted
    /\ ~site.destroyed
    /\ ~site.recreated

\* C12 (curve immutability): every step of the mounted scene, a frame or a
\* settings change, leaves every curve as it was built: the named vessels,
\* the visual-only curves, the arteriole and venule groups, and the rails
\* and bridges of both capillary beds.
C12_CurveImmutability == [][curves' = curves]_vars

\* frames have run, every control has been used, the microvessel Flow Unit
\* has been unmounted and mounted again, and the curves are still a scene
\* as built
C12_Witness ==
    /\ clock > 0
    /\ settings.heartRate # InitialSettings.heartRate
    /\ settings.flowSpeed # InitialSettings.flowSpeed
    /\ settings.respirationRate # InitialSettings.respirationRate
    /\ site.recreated
    /\ \E seq \in RandomSeqs : curves = BuildScene(seq)

\* what each arteriole/venule group connects: the main vessel whose end (for
\* arterioles) or start (for venules) is the trunk transition point, and the
\* rail of the capillary bed that is the inlet or outlet edge
FanGroups ==
    [ upperArterioles |-> [trunk |-> "systemicUpperArtery", fanOut |-> TRUE,
                           bed |-> "upperBed", rail |-> "leftVesselPath"],
      lowerArterioles |-> [trunk |-> "systemicLowerArtery", fanOut |-> TRUE,
                           bed |-> "lowerBed", rail |-> "leftVesselPath"],
      upperVenules    |-> [trunk |-> "systemicUpperVein", fanOut |-> FALSE,
                           bed |-> "upperBed", rail |-> "rightVesselPath"],
      lowerVenules    |-> [trunk |-> "systemicLowerVein", fanOut |-> FALSE,
                           bed |-> "lowerBed", rail |-> "rightVesselPath"] ]

FirstPoint(curve) == curve.points[1]
LastPoint(curve) == curve.points[Len(curve.points)]

\* the end of a fan curve at the trunk, and its end at the bed
TrunkEnd(g, curve) == IF FanGroups[g].fanOut THEN FirstPoint(curve) ELSE LastPoint(curve)
BedEnd(g, curve) == IF FanGroups[g].fanOut THEN LastPoint(curve) ELSE FirstPoint(curve)

\* where the main artery ends or the main vein starts
TrunkPoint(c, g) ==
    IF FanGroups[g].fanOut THEN LastPoint(c.paths[FanGroups[g].trunk])
    ELSE FirstPoint(c.paths[FanGroups[g].trunk])

\* the group has 3 curves that all have the trunk transition point as their
\* trunk end
FanShared(c, g) ==
    /\ Len(c.paths[g]) = 3
    /\ \A k \in 1 .. Len(c.paths[g]) : TrunkEnd(g, c.paths[g][k]) = TrunkPoint(c, g)

\* the bed ends of the group are pairwise distinct
FanSpread(c, g) ==
    \A j, k \in 1 .. Len(c.paths[g]) :
        j # k => BedEnd(g, c.paths[g][j]) # BedEnd(g, c.paths[g][k])

\* the bed ends lie on the rail: at its x (the rail is placed at the bed's
\* position) and between its lowest and highest y
FanOnEdge(c, g) ==
    LET bed  == c[FanGroups[g].bed]
        rail == bed[FanGroups[g].rail]
        x    == bed.position[1] + FirstPoint(rail)[1]
        lo   == bed.position[2] + FirstPoint(rail)[2]
        hi   == bed.position[2] + LastPoint(rail)[2]
    IN  \A k \in 1 .. Len(c.paths[g]) :
            LET p == BedEnd(g, c.paths[g][k])
            IN  p[1] = x /\ lo <= p[2] /\ p[2] <= hi

\* C13 (fan groups): each of the four arteriole/venule groups has exactly 3
\* curves sharing the trunk transition point (first point for arterioles,
\* last point for venules), and their other ends are 3 pairwise distinct
\* points on the bed's inlet/outlet edge: at the rail's x and within the
\* rail's vertical extent.
C13_FanGroups ==
    \A g \in FanNames :
        FanShared(curves, g) /\ FanSpread(curves, g) /\ FanOnEdge(curves, g)

\* the point of a rail of half-height BED_HEIGHT_HALF at x, at the rail
\* parameter 0.05 + 0.9 * i / 19, in 1/19000: the rail runs from y = -H to
\* y = +H, so y = -H + 2H * (95 + 90 i) / 1900
OnRailAt(x, i) ==
    <<19 * x, (2 * BED_HEIGHT_HALF * (95 + 90 * i)) \div 100 - 19 * BED_HEIGHT_HALF, 0>>

Abs(x) == IF x < 0 THEN -x ELSE x

\* the handle is the point at alpha (hundredths) between start and end,
\* displaced by at most 0.25 in y and 0.4 in z (1/19000: 4750 and 7600)
HandleNear(handle, start, end, alpha) ==
    LET m == LerpVectors(start, end, alpha)
    IN  /\ handle[1] = m[1]
        /\ Abs(handle[2] - m[2]) <= 4750
        /\ Abs(handle[3] - m[3]) <= 7600

\* C14 (bridge construction): each capillary bed has exactly 20 bridges;
\* bridge i (0 .. 19) is a cubic bezier from the left rail to the right
\* rail at the same rail parameter 0.05 + 0.9 * i / 19, its handles are the
\* 0.33 and 0.66 points between the two, displaced by at most 0.25 in y and
\* 0.4 in z; and exactly one Flow Unit is bound to each bridge, with 3
\* particles, kind capillary and no override colour.
C14_BridgeConstruction ==
    LET onBridges == {f \in FlowUnits(curves) : f.group \in BedNames}
    IN  /\ \A b \in BedNames :
            /\ Len(curves[b].bridges) = 20
            /\ \A i \in 1 .. Len(curves[b].bridges) :
                LET bridge == curves[b].bridges[i]
                    start  == bridge.points[1]
                    end    == bridge.points[4]
                IN  /\ bridge.kind = "CubicBezierCurve3"
                    /\ Len(bridge.points) = 4
                    /\ start = OnRailAt(-BED_WIDTH_HALF, i - 1)
                    /\ end = OnRailAt(BED_WIDTH_HALF, i - 1)
                    /\ HandleNear(bridge.points[2], start, end, 33)
                    /\ HandleNear(bridge.points[3], start, end, 66)
        \* one Flow Unit per bridge: as many units as bridges, and every
        \* bridge is the path of one of them
        /\ Cardinality(onBridges) = 2 * 20
        /\ {<<f.group, f.index>> : f \in onBridges} = BedNames \X (1 .. 20)
        /\ \A f \in onBridges :
            /\ CurveOf(curves, f) = curves[f.group].bridges[f.index]
            /\ f.parent = "CapillaryBed"
            /\ f.props.count = 3
            /\ f.props.type = "capillary"
            /\ f.props.overrideColor = Undefined

\* a built bed with a handle displaced by the full 0.25 in y, a handle
\* displaced by less, and the observed bridge Flow Unit ticking on it
C14_Witness ==
    /\ \E i \in 1 .. BridgeCount :
        LET bridge == curves.upperBed.bridges[i]
            m1     == LerpVectors(bridge.points[1], bridge.points[4], 33)
            m2     == LerpVectors(bridge.points[1], bridge.points[4], 66)
        IN  /\ Abs(bridge.points[2][2] - m1[2]) = 4750
            /\ Abs(bridge.points[3][2] - m2[2]) \in 1 .. 4749
    /\ unit \in {f.props : f \in BridgeFlowUnits(curves)}
    /\ site.parent = "CapillaryBed"
    /\ hist.n >= 1

\* the pulse factor a chamber's scale shows: the scale of the first axis
\* over the base scale of that axis
PulseShown(c) == chambers[c].scale[1] \div Chambers[c].scale[1]

\* chambers whose callback has run
Beating == {c \in ChamberLabels : chambers[c].seen # Undefined}

\* the sine the callback of chamber c last took the 12th power of
SineSeen(c) == SinTurn(PhaseOf(chambers[c].seen[1], chambers[c].seen[2], Chambers[c].phaseOffset))

\* C15 (chamber pulse values): for every chamber, heart rate and elapsed
\* time the pulse factor 1 + sin(2 pi (elapsed * BPM / 60 + phaseOffset))^12
\* * 0.1 is in [1.0, 1.1] and multiplies the three base scale axes equally;
\* it is 1.1 when the sine is 1 and 1.0 when the sine is 0; for heartRate 72
\* and phaseOffset 0 at elapsed 0 it is 1.0.
C15_PulseValues ==
    /\ \A c \in Beating :
        LET pulse == PulseShown(c)
        IN  /\ 10000 <= pulse /\ pulse <= 11000
            /\ chambers[c].scale = ScaleSet(Chambers[c].scale, pulse)
            /\ pulse = 10000 + Pow12(SineSeen(c)) \div 10
            /\ SineSeen(c) = 10000 => pulse = 11000
            /\ SineSeen(c) = 0 => pulse = 10000
            /\ (chambers[c].seen = <<0, 72>> /\ Chambers[c].phaseOffset = 0) => pulse = 10000
    /\ PulseAt(0, 72, 0) = 10000

\* a frame in which the ventricles are at the peak (sine 1, factor 1.1), the
\* atria are in between, and all axes of RV carry the same factor although
\* its base scale is not uniform
C15_Witness ==
    /\ Beating = ChamberLabels
    /\ SineSeen("RV") = 10000
    /\ chambers["RV"].scale = <<100 * 11000, 140 * 11000, 100 * 11000>>
    /\ PulseShown("RA") > 10000 /\ PulseShown("RA") < 11000

\* factors by which heart rate and elapsed time are traded against each other
RateFactors == 2 .. 6

\* C16 (pulse frequency scaling): the pulse depends on elapsed time and
\* heart rate only through elapsed * BPM / 60 + phaseOffset: the scale a
\* chamber shows at (elapsed, BPM) is the scale at (elapsed / k, BPM * k)
\* and at (elapsed * k, BPM / k); heartRate 180 oscillates exactly 6 times
\* as fast as heartRate 30.
C16_FrequencyScaling ==
    /\ \A c \in Beating :
        LET time == chambers[c].seen[1]
            bpm  == chambers[c].seen[2]
            at(t, b) == ScaleSet(Chambers[c].scale, PulseAt(t, b, Chambers[c].phaseOffset))
        IN  /\ chambers[c].scale = at(time, bpm)
            /\ \A k \in RateFactors :
                /\ time % k = 0 => chambers[c].scale = at(time \div k, bpm * k)
                /\ bpm % k = 0 => chambers[c].scale = at(time * k, bpm \div k)
    /\ \A c \in ChamberLabels, t \in 0 .. 2 * MaxClock :
        PulseAt(t, 180, Chambers[c].phaseOffset) = PulseAt(6 * t, 30, Chambers[c].phaseOffset)

\* a frame at elapsed 0.5 s read at heartRate 180: the atria show a factor
\* strictly between 1.0 and 1.1, the one heartRate 30 gives at 3 s
C16_Witness ==
    /\ Beating = ChamberLabels
    /\ chambers["RA"].seen = <<5, 180>>
    /\ PulseShown("RA") > 10000 /\ PulseShown("RA") < 11000
    /\ PulseShown("RA") = PulseAt(30, 30, Chambers["RA"].phaseOffset)

\* a step in which a frame ran: the clock moved, the Flow Unit's callback
\* was called, or a chamber or lung was rescaled
FrameStep ==
    clock' # clock \/ hist'.n # hist.n \/ chambers' # chambers \/ lungs' # lungs

\* respiration rates a second run may have instead
RespirationRateProbes == {5, 16, 40}

\* C17 (respiration decoupling): a run that differs only in respirationRate
\* produces the same output at every tick: changing respirationRate changes
\* no output, and every frame yields the chamber scales, the lung scales
\* and the particle positions it would yield under any other
\* respirationRate; the lung scale is base axis scale *
\* (1 + sin(elapsed * 0.8) * 0.05).
C17_RespirationDecoupling ==
    [][ /\ settings'.respirationRate # settings.respirationRate =>
            UNCHANGED <<curves, unit, particles, mesh, log, site, clock, chambers, lungs>>
        /\ FrameStep =>
            /\ \A r \in RespirationRateProbes :
                LET s == [settings EXCEPT !.respirationRate = r]
                IN  /\ chambers' = SceneFrame(s, clock').chambers
                    /\ lungs' = SceneFrame(s, clock').lungs
                    /\ site.mounted =>
                        \A i \in Pool :
                            particles'[i].t =
                                Advance(particles[i].t,
                                        StepOf(SpeedProp(s.flowSpeed, unit),
                                               6 * (clock' - clock),
                                               particles[i].speedMod))
            /\ \A l \in LungLabels :
                lungs'[l].scale =
                    ScaleSet(LungAxes, 10000 + SinMilliRad(80 * clock') \div 20)
            /\ curves' = curves
      ]_vars

\* respirationRate has been changed, and a frame at elapsed 0.5 s has
\* inflated the lungs by sin(0.4) * 0.05 and moved the particles
C17_Witness ==
    /\ settings.respirationRate = 40
    /\ \A l \in LungLabels :
        /\ lungs[l].seen = <<5>>
        /\ lungs[l].scale = ScaleSet(LungAxes, 10193)
    /\ site.mounted
    /\ hist.n >= 1
    /\ \E i \in Pool : particles[i].t # hist.t0[i]

\* the fields of the Settings record that a step changes
FieldsChanged == {k \in DOMAIN settings : settings'[k] # settings[k]}

\* C18 (settings ownership): no frame writes the Settings record; Settings
\* change only in a control interaction, which runs no frame callback, and
\* each interaction changes exactly the one field it targets, leaving the
\* other three as they were.
C18_SettingsOwnership ==
    [][ /\ DOMAIN settings' = DOMAIN settings
        /\ FrameStep => settings' = settings
        /\ settings' # settings =>
            /\ Cardinality(FieldsChanged) = 1
            /\ ~FrameStep
            /\ UNCHANGED <<curves, unit, clock, chambers, lungs>>
      ]_vars

\* every control has been used and frames have run: the four fields all
\* differ from their initial values
C18_Witness ==
    /\ settings.heartRate # InitialSettings.heartRate
    /\ settings.flowSpeed # InitialSettings.flowSpeed
    /\ settings.respirationRate # InitialSettings.respirationRate
    /\ settings.showVessels # InitialSettings.showVessels
    /\ clock > 0
    /\ Beating = ChamberLabels

\* C19 (settings range invariant): starting from heartRate 72, flowSpeed
\* 1.0, respirationRate 16, showVessels true, after any sequence of control
\* interactions heartRate is within 30 .. 180, flowSpeed within 0.1 .. 3.0
\* and respirationRate within 5 .. 40.
C19_SettingsRanges ==
    /\ settings.heartRate \in 30 .. 180
    /\ settings.flowSpeed \in 1 .. 30
    /\ settings.respirationRate \in 5 .. 40
    /\ settings.showVessels \in BOOLEAN

\* the three sliders have been dragged past their right ends
C19_Witness ==
    /\ settings.heartRate = 180
    /\ settings.flowSpeed = 30
    /\ settings.respirationRate = 40
    /\ ~settings.showVessels

------------------------------------------------------------------------------
(* Claims about one Flow Unit, under Spec (continued) *)

\* a step in which the Flow Unit's frame callback ran to its end
TickStep == hist'.n = hist.n + 1

\* slot i of a buffer after a tick is the slot as it was, or the value
\* computed from particle i after its move
SlotKeptOrWritten(old, new, value) == new = old \/ new = value

\* C20 (tick frame condition): a tick of a Flow Unit changes only each
\* particle's t and that particle's own slot of the transform and colour
\* buffers; the pool size, every particle's jitter offset and speedMod, and
\* the unit's curve binding (its props and the curves) are as before the tick.
C20_TickFrameCondition ==
    [][ TickStep =>
        /\ Len(particles') = Len(particles)
        /\ \A i \in 1 .. Len(particles) :
            /\ particles'[i].offset = particles[i].offset
            /\ particles'[i].speedMod = particles[i].speedMod
            /\ DOMAIN particles'[i] = DOMAIN particles[i]
            /\ SlotKeptOrWritten(mesh.instanceMatrix[i], mesh'.instanceMatrix[i],
                                 MatrixOf(unit.path, unit.type, particles'[i]))
            /\ mesh'.instanceMatrix[i].written =>
                   mesh'.instanceMatrix[i].offset = particles[i].offset
            /\ mesh'.instanceColor # Undefined =>
                   SlotKeptOrWritten(
                       IF mesh.instanceColor = Undefined
                       THEN UnwrittenSlot ELSE mesh.instanceColor[i],
                       mesh'.instanceColor[i],
                       ColorSlotOf(unit.type, unit.overrideColor, particles'[i]))
        /\ Len(mesh'.instanceMatrix) = Len(mesh.instanceMatrix)
        /\ mesh'.current = mesh.current
        /\ UNCHANGED <<unit, curves, settings, site, clock, chambers, lungs>>
      ]_vars

\* two ticks have run, every particle has moved from where it was created
\* and has a written transform slot
C20_Witness ==
    /\ hist.n = 2
    /\ Len(particles) = 2
    /\ \A i \in 1 .. Len(particles) :
        /\ particles[i].t # hist.t0[i]
        /\ particles[i].offset # <<0, 0, 0>>
        /\ mesh.instanceMatrix[i].written
    /\ mesh.instanceColor # Undefined

------------------------------------------------------------------------------
(* Claims about the running loop, under LiveSpec *)

\* a frame in which particle i wraps around: its t drops back to the curve's
\* start, below where it was and within the curve
WrapStep(i) ==
    /\ particles'[i].t < particles[i].t
    /\ particles'[i].t <= TDen

\* C21 (recycling liveness): while frames keep firing with a positive delta
\* and flowSpeed > 0, every particle of the mounted Flow Unit wraps around
\* infinitely often: none stops advancing or stays at or beyond the end of
\* its curve.
C21_RecyclingLiveness ==
    \A i \in 1 .. PoolCap : []<><<WrapStep(i)>>_vars

------------------------------------------------------------------------------
(* Claims about the beat, under BeatSpec *)

\* C22 (one pulse per beat): at heart rate B each chamber's pulse scale
\* reaches its peak, 1.1 times the base scale, exactly once in every beat
\* period of 60 / B seconds: when one whole period has been swept, every
\* chamber has been at the peak in exactly one frame.
C22_OnePulsePerBeat ==
    clock = TurnSteps =>
        \A c \in ChamberLabels : chambers[c].peaks = 1

------------------------------------------------------------------------------
(* Claims about the composed scene, under SceneSpec (continued) *)

\* curve parameters at which a colour law is probed: twentieths of the curve
ProbeTs == {k * (TDen \div 20) : k \in 0 .. 20}

\* C23 (composed-scene colours): every Flow Unit of the scene other than the
\* capillary-bridge units has an override colour, COLOR_O2_RICH or
\* COLOR_O2_POOR, so that its colour is that one colour at every t and every
\* colour slot it has written holds it; the bridge units have none, and
\* their colour is the blend at the particle's t, which differs between t.
C23_ComposedSceneColors ==
    LET all      == FlowUnits(curves)
        offProps == {f.props : f \in {g \in all : g.group \notin BedNames}}
        onProps  == {f.props : f \in {g \in all : g.group \in BedNames}}
    IN  /\ \A p \in offProps :
            /\ p.overrideColor \in {COLOR_O2_RICH, COLOR_O2_POOR}
            /\ \A t \in ProbeTs :
                ColorAt(p.type, p.overrideColor, t) = ColorCopy(p.overrideColor)
        /\ \A p \in onProps :
            /\ p.overrideColor = Undefined
            /\ p.type = "capillary"
            /\ \A t1, t2 \in ProbeTs :
                t1 # t2 => ColorAt(p.type, p.overrideColor, t1)
                            # ColorAt(p.type, p.overrideColor, t2)
        /\ \A i \in Written :
            ColorSlot(mesh, i).color =
                IF site.parent = "CapillaryBed"
                THEN CapillaryColor(SlotT(i))
                ELSE ColorCopy(unit.overrideColor)
        /\ site.parent # "CapillaryBed" =>
            /\ unit \in offProps
            /\ \A i, j \in Written : ColorSlot(mesh, i).color = ColorSlot(mesh, j).color

\* an arteriole Flow Unit that was remounted and has ticked: both particles
\* sit at different t, one of them where the window of the pulmonary and
\* systemic laws lies, and both slots hold the override colour
C23_Witness ==
    /\ site.parent = "MicrovesselGroup"
    /\ site.recreated
    /\ Written = 1 .. Len(particles)
    /\ Len(particles) = 2
    /\ SlotT(1) # SlotT(2)
    /\ \E i \in Written : 10 * SlotT(i) > 3 * TDen /\ 10 * SlotT(i) < 5 * TDen
    /\ \A i \in Written : ColorSlot(mesh, i).color = ColorCopy(COLOR_O2_RICH)

====
